---- MODULE Spec2Model ----
(***************************************************************************)
(* The chat data model of api/app/models/chat.py: Prompt, MessageType,     *)
(* Message, Code, Chat and Response.  The classes are declarations; what   *)
(* they do on construction, serialisation and deserialisation is what the  *)
(* declarations mean to the validation base class: required fields,        *)
(* defaults, default factories, the closed enumeration, inheritance.       *)
(*                                                                         *)
(* A Python str is a sequence of one-character strings.  A Python value is *)
(* a record tagged with its type (t).  Keyword arguments are a function    *)
(* from the names that were passed to their values.                        *)
(***************************************************************************)
EXTENDS Integers, Sequences, FiniteSets, TLC

\* ------------------------------------------------------------- bounds
MaxTick == 2
MaxMint == 2
MaxLen == 2

VARIABLES
    now,      \* the clock: the instant datetime.now() returns, in half seconds
    pydantic, \* the major version of the validation library the build installs
    last,     \* the outcome of the latest constructor call
    minted,   \* the ids the id factory produced, each with its random draw
    wire,     \* the latest serialised entity, and the entity it was made from
    back,     \* the outcome of the latest deserialisation
    chats,    \* the Chat objects, in the order they were constructed
    lists,    \* the list objects; lists[1] is the default written in the class
    codes,    \* the Code objects the callers hold and pass by reference
    born,     \* per chat: the arguments and the instant of its construction
    appended, \* per chat: the messages appended to it, in order
    op        \* the latest operation on the chats and the chat it was on

heap == <<chats, lists, codes, born, appended, op>>
vars == <<now, pydantic, last, minted, wire, back, heap>>

\* ------------------------------------------------------ Python values
Absent == [t |-> "absent"]
None == [t |-> "None"]
Str(s) == [t |-> "str", v |-> s]
Member(m) == [t |-> "enum", v |-> m]
Datetime(d) == [t |-> "datetime", v |-> d]
List(q) == [t |-> "list", v |-> q]
Dict(kw) == [t |-> "dict", v |-> kw]
Obj(cls, f) == [t |-> "obj", cls |-> cls, f |-> f]

\* The keyword arguments a call passes: the fields of r that are not Absent.
Kw(r) == [n \in {m \in DOMAIN r : r[m].t # "absent"} |-> r[n]]

Ok(v) == [ok |-> TRUE, val |-> v, why |-> ""]
Err(why) == [ok |-> FALSE, val |-> None, why |-> why]

\* ------------------------------------------------------- uuid4().hex
HexDigits == <<"0", "1", "2", "3", "4", "5", "6", "7",
               "8", "9", "a", "b", "c", "d", "e", "f">>

\* 16 random bytes as 32 nibbles, most significant first.  uuid4 fixes the
\* version nibble (bits 76..79) to 4 and the variant bits (62, 63) to 10.
Uuid4(bytes) ==
    [i \in 1..32 |-> IF i = 13 THEN 4
                     ELSE IF i = 17 THEN 8 + (bytes[i] % 4)
                     ELSE bytes[i]]

Hex(n) == [i \in 1..Len(n) |-> HexDigits[n[i] + 1]]

\* The draws os.urandom(16) is modelled to return.
Entropy ==
    { [i \in 1..32 |-> 0],
      [i \in 1..32 |-> 15],
      [i \in 1..32 |-> IF i = 13 THEN 9 ELSE 0] }

\* ---------------------------------------------------------- datetime
DigitChars == <<"0", "1", "2", "3", "4", "5", "6", "7", "8", "9">>

\* datetime.now() at clock tick t: whole seconds and microseconds.
Now(t) == [s |-> t \div 2, us |-> (t % 2) * 500000]

RECURSIVE Digits(_, _)
Digits(n, w) ==
    IF w = 0 THEN <<>> ELSE Digits(n \div 10, w - 1) \o <<DigitChars[(n % 10) + 1]>>

\* isoformat(): the date and hour part is constant here and written "T";
\* the microseconds are omitted when they are zero.
IsoFormat(d) ==
    <<"T">> \o Digits(d.s, 2)
            \o (IF d.us = 0 THEN <<>> ELSE <<".">> \o Digits(d.us, 6))

IsDigit(c) == \E i \in 1..10 : DigitChars[i] = c
DigitVal(c) == CHOOSE i \in 0..9 : DigitChars[i + 1] = c

RECURSIVE Num(_)
Num(q) ==
    IF q = <<>> THEN 0
    ELSE Num(SubSeq(q, 1, Len(q) - 1)) * 10 + DigitVal(q[Len(q)])

RECURSIVE Pow10(_)
Pow10(k) == IF k = 0 THEN 1 ELSE 10 * Pow10(k - 1)

ParseIso(s) ==
    LET frac == SubSeq(s, 5, Len(s))
        shape == /\ Len(s) >= 3
                 /\ s[1] = "T"
                 /\ IsDigit(s[2]) /\ IsDigit(s[3])
                 /\ \/ Len(s) = 3
                    \/ /\ Len(s) \in 5..10
                       /\ s[4] = "."
                       /\ \A i \in 5..Len(s) : IsDigit(s[i])
    IN  IF ~shape THEN [ok |-> FALSE, d |-> Now(0)]
        ELSE [ok |-> TRUE,
              d |-> [s |-> Num(SubSeq(s, 2, 3)),
                     us |-> IF Len(s) = 3 THEN 0
                            ELSE Num(frac) * Pow10(6 - Len(frac))]]

\* ------------------------------------------------------- MessageType
\* The members and their values.
MessageTypeOpen ==
    [AI |-> <<"a", "i">>, USER |-> <<"u", "s", "e", "r">>, BOT |-> <<"b", "o", "t">>]
MessageType == [AI |-> <<"a", "i">>, USER |-> <<"u", "s", "e", "r">>]

EnumByValue(x) ==
    IF x.t = "enum" /\ x.v \in DOMAIN MessageType THEN Ok(x)
    ELSE IF x.t = "str" /\ \E m \in DOMAIN MessageType : MessageType[m] = x.v
         THEN Ok(Member(CHOOSE m \in DOMAIN MessageType : MessageType[m] = x.v))
         ELSE Err("enum")

\* ------------------------------------------------------------ fields
Required == [kind |-> "required"]
Value(v) == [kind |-> "value", v |-> v]
Factory(f) == [kind |-> "factory", f |-> f]

Empty == <<>>
NewChatName == <<"N", "e", "w", " ", "C", "h", "a", "t">>

PromptInput == [name |-> "input", type |-> "str", default |-> Required]
PromptFields == <<PromptInput>>

\* The id evaluated once, when the class is defined.
MessageIdOnce ==
    [name |-> "id", type |-> "str",
     default |-> Value(Str(Hex(Uuid4([i \in 1..32 |-> 15]))))]
MessageId == [name |-> "id", type |-> "str", default |-> Factory("uuid4hex")]
MessageTypeField ==
    [name |-> "type", type |-> "MessageType", default |-> Value(Member("USER"))]
MessageContent == [name |-> "content", type |-> "str", default |-> Value(Str(Empty))]
MessageFields == <<MessageId, MessageTypeField, MessageContent>>

\* html given a placeholder as its default.
CodeHtmlPlaceholder ==
    [name |-> "html", type |-> "str", default |-> Value(Str(<<"<", "p", ">">>))]
CodeHtml == [name |-> "html", type |-> "str", default |-> Value(Str(Empty))]
CodeCss == [name |-> "css", type |-> "str", default |-> Value(Str(Empty))]
CodeJs == [name |-> "js", type |-> "str", default |-> Value(Str(Empty))]
CodeFields == <<CodeHtml, CodeCss, CodeJs>>

\* userId given a default.
ChatUserIdOptional == [name |-> "userId", type |-> "str", default |-> Value(None)]
ChatUserId == [name |-> "userId", type |-> "str", default |-> Required]
\* A chat that opens with a greeting.
ChatMessagesGreeting ==
    [name |-> "messages", type |-> "List[Message]",
     default |-> Value(List(<<Obj("Message", [id |-> Str(<<"0">>),
                                              type |-> Member("AI"),
                                              content |-> Str(<<"h", "i">>)])>>))]
ChatMessages ==
    [name |-> "messages", type |-> "List[Message]", default |-> Value(List(<<>>))]
ChatName == [name |-> "name", type |-> "str", default |-> Value(Str(NewChatName))]
ChatCode == [name |-> "code", type |-> "Code", default |-> Factory("Code")]
\* The timestamp evaluated once, when the class is defined.
ChatCreatedAtOnce ==
    [name |-> "createdAt", type |-> "datetime", default |-> Value(Datetime(Now(0)))]
ChatCreatedAt == [name |-> "createdAt", type |-> "datetime", default |-> Factory("now")]
ChatFields == <<ChatUserId, ChatMessages, ChatName, ChatCode, ChatCreatedAt>>

ResponseExplanation ==
    [name |-> "explanation", type |-> "str", default |-> Value(Str(Empty))]
\* class Response(Code): the inherited fields, then its own.
ResponseFields == CodeFields \o <<ResponseExplanation>>

Classes == {"Prompt", "Message", "Code", "Chat", "Response"}

Fields(cls) ==
    CASE cls = "Prompt" -> PromptFields
      [] cls = "Message" -> MessageFields
      [] cls = "Code" -> CodeFields
      [] cls = "Chat" -> ChatFields
      [] cls = "Response" -> ResponseFields

FieldNames(cls) == {Fields(cls)[i].name : i \in 1..Len(Fields(cls))}

\* isinstance(x, cls): Response is the one subclass.
IsInstance(x, cls) ==
    /\ x.t = "obj"
    /\ \/ x.cls = cls
       \/ x.cls = "Response" /\ cls = "Code"

\* -------------------------------------------------------- validation
RECURSIVE Construct(_, _, _), Coerce(_, _, _), FieldValue(_, _, _),
          Default(_, _), CallFactory(_, _)

\* A field's default factory, called at construction.
CallFactory(f, env) ==
    CASE f = "uuid4hex" -> Str(Hex(Uuid4(env.draw)))
      [] f = "Code" -> Construct("Code", <<>>, env).obj
      [] f = "now" -> Datetime(Now(env.now))

\* What an omitted field takes.
Default(field, env) ==
    CASE field.default.kind = "required" -> Err("missing")
      [] field.default.kind = "value" -> Ok(field.default.v)
      [] field.default.kind = "factory" -> Ok(CallFactory(field.default.f, env))

\* The value x validated against a field's declared type.
Coerce(type, x, env) ==
    CASE type = "str" -> IF x.t = "str" THEN Ok(x) ELSE Err("string_type")
      [] type = "MessageType" -> EnumByValue(x)
      [] type = "datetime" ->
            IF x.t = "datetime" THEN Ok(x)
            ELSE IF x.t = "str" /\ ParseIso(x.v).ok
                 THEN Ok(Datetime(ParseIso(x.v).d))
                 ELSE Err("datetime_type")
      [] type = "List[Message]" ->
            IF x.t # "list" THEN Err("list_type")
            ELSE LET rs == [i \in 1..Len(x.v) |-> Coerce("Message", x.v[i], env)]
                 IN  IF \A i \in 1..Len(rs) : rs[i].ok
                     THEN Ok(List([i \in 1..Len(rs) |-> rs[i].val]))
                     ELSE Err("model")
      [] type \in Classes ->
            IF IsInstance(x, type) THEN Ok(x)
            ELSE IF x.t = "dict"
                 THEN LET r == Construct(type, x.v, env)
                      IN  IF r.ok THEN Ok(r.obj) ELSE Err("model")
                 ELSE Err("model_type")

\* A factory that runs whether or not the field was passed.
FieldValueRegenerated(field, kw, env) ==
    IF field.name \in DOMAIN kw /\ field.default.kind # "factory"
    THEN Coerce(field.type, kw[field.name], env)
    ELSE Default(field, env)

\* A passed field is validated, an omitted one takes its default.
FieldValue(field, kw, env) ==
    IF field.name \in DOMAIN kw
    THEN Coerce(field.type, kw[field.name], env)
    ELSE Default(field, env)

\* cls(**kw): every field is validated; one error or more and no object is
\* made.  Keys that are no field are ignored.
Construct(cls, kw, env) ==
    LET fs == Fields(cls)
        res == [i \in 1..Len(fs) |-> FieldValue(fs[i], kw, env)]
        errors == {[loc |-> fs[i].name, type |-> res[i].why] :
                       i \in {j \in 1..Len(fs) : ~res[j].ok}}
        index(n) == CHOOSE i \in 1..Len(fs) : fs[i].name = n
    IN  IF errors = {}
        THEN [ok |-> TRUE, errors |-> {},
              obj |-> Obj(cls, [n \in FieldNames(cls) |-> res[index(n)].val])]
        ELSE [ok |-> FALSE, errors |-> errors, obj |-> None]

\* ------------------------------------------------ the callers' inputs
U1 == <<"u", "1">>
M1 == <<"m", "1">>
Hi == <<"h", "i">>
Bot == <<"b", "o", "t">>
Markup == <<"<", "p", ">">>
Done == <<"d", "o", "n", "e">>
Title == <<"t">>

PromptArgs == {Kw([input |-> v]) : v \in {Absent, None, Str(Hi)}}

MessageArgs ==
    {Kw([id |-> a, type |-> b, content |-> c]) :
        a \in {Absent, Str(M1)},
        b \in {Absent, None, Member("AI"), Str(<<"a", "i">>),
               Str(<<"u", "s", "e", "r">>), Str(Bot)},
        c \in {Absent, Str(Hi)}}

CodeArgs ==
    {Kw([html |-> a, css |-> b, js |-> Absent]) :
        a \in {Absent, Str(Markup)}, b \in {Absent, None}}

ResponseArgs ==
    {Kw([html |-> a, css |-> Absent, js |-> Absent, explanation |-> b]) :
        a \in {Absent, Str(Markup)}, b \in {Absent, Str(Done)}}

AMessage == Obj("Message", [id |-> Str(M1), type |-> Member("AI"), content |-> Str(Hi)])
ACode == Obj("Code", [html |-> Str(Markup), css |-> Str(Empty), js |-> Str(Empty)])
AResponse ==
    Obj("Response", [html |-> Str(Markup), css |-> Str(Empty), js |-> Str(Empty),
                     explanation |-> Str(Done)])

ChatArgs ==
    {Kw([userId |-> a, messages |-> b, name |-> c, code |-> d, createdAt |-> e]) :
        a \in {Absent, None, Str(U1)},
        b \in {Absent, List(<<>>), List(<<AMessage>>)},
        c \in {Absent, Str(Title)},
        d \in {Absent, ACode, AResponse},
        e \in {Absent, Datetime(Now(1))}}

Args(cls) ==
    CASE cls = "Prompt" -> PromptArgs
      [] cls = "Message" -> MessageArgs
      [] cls = "Code" -> CodeArgs
      [] cls = "Chat" -> ChatArgs
      [] cls = "Response" -> ResponseArgs

\* ------------------------------------------------------ construction
\* A call draws only when it is Message's and passes no id.
MintsId(cls, kw) == cls = "Message" /\ "id" \notin DOMAIN kw

\* The draws a call may take; a call that asks for none is given zeros.
DrawsFor(cls, kw) ==
    IF MintsId(cls, kw) THEN Entropy ELSE {[i \in 1..32 |-> 0]}

\* cls(**kw) at instant t with draw d, as the caller sees it.
Call(cls, kw, d, t) ==
    LET r == Construct(cls, kw, [now |-> t, draw |-> d])
    IN  [cls |-> cls, kw |-> kw, at |-> t, ok |-> r.ok, obj |-> r.obj,
         errors |-> r.errors]

NoCall ==
    [cls |-> "", kw |-> <<>>, at |-> 0, ok |-> FALSE, obj |-> None, errors |-> {}]

\* The names of the Chat objects and of the Code objects callers hold.
ChatIds == {"a", "b"}
CodeIds == {"s"}

ASnippet == <<"j", "s">>
Patched == <<"!">>
SecondMessage ==
    Obj("Message", [id |-> Str(M1), type |-> Member("USER"), content |-> Str(Empty)])

\* No chat yet: the heap holds the one list the class statement made.
NoChats ==
    /\ chats = [c \in ChatIds |-> None]
    /\ lists = [c \in ChatIds \cup {"class"} |->
                  IF c = "class" THEN ChatMessages.default.v.v ELSE <<>>]
    /\ codes = [r \in CodeIds |-> None]
    /\ born = [c \in ChatIds |-> None]
    /\ appended = [c \in ChatIds |-> <<>>]
    /\ op = [name |-> "", chat |-> "", arg |-> None]

InitNew ==
    /\ now = 0
    /\ pydantic = 2
    /\ last = NoCall
    /\ minted = <<>>
    /\ wire = None
    /\ back = None
    /\ NoChats

Tick ==
    /\ now < MaxTick
    /\ now' = now + 1
    /\ UNCHANGED <<pydantic, last, minted, wire, back, heap>>

New(cls) ==
    \E kw \in Args(cls) :
        \E d \in DrawsFor(cls, kw) :
            /\ last' = Call(cls, kw, d, now)
            /\ UNCHANGED <<now, pydantic, minted, wire, back, heap>>

NewPrompt == New("Prompt")
NewMessage == New("Message")
NewCode == New("Code")
NewResponse == New("Response")
NewChat == New("Chat")

NextNew ==
    \/ Tick
    \/ NewPrompt
    \/ NewMessage
    \/ NewCode
    \/ NewResponse
    \/ NewChat

SpecNew == InitNew /\ [][NextNew]_vars

\* ------------------------------------------------- the ids as minted
\* Message(**kw) with the generated ids kept, in order, with their draws.
MintMessage ==
    \E kw \in MessageArgs :
        \E d \in DrawsFor("Message", kw) :
            LET c == Call("Message", kw, d, now)
            IN  /\ MintsId("Message", kw) => Len(minted) < MaxMint
                /\ last' = c
                /\ minted' = IF MintsId("Message", kw) /\ c.ok
                             THEN Append(minted, [draw |-> d, id |-> c.obj.f["id"].v])
                             ELSE minted
                /\ UNCHANGED <<now, pydantic, wire, back, heap>>

NextMint == MintMessage

SpecMint == InitNew /\ [][NextMint]_vars

\* ------------------------------------------------------ serialisation
FieldType(cls, n) == Fields(cls)[CHOOSE i \in 1..Len(Fields(cls)) : Fields(cls)[i].name = n].type

RECURSIVE Dump(_, _)
\* The JSON form of x, the value of a field declared as type: a str stays,
\* an enumeration member becomes its value, a datetime its ISO text, a
\* model a dict.  Library 1 dumps the fields of the instance's own class,
\* library 2 those of the declared class.
Dump(x, type) ==
    CASE x.t = "str" -> x
      [] x.t = "enum" -> Str(MessageType[x.v])
      [] x.t = "datetime" -> Str(IsoFormat(x.v))
      [] x.t = "list" -> List([i \in 1..Len(x.v) |-> Dump(x.v[i], "Message")])
      [] x.t = "obj" ->
            LET cls == IF pydantic = 1 THEN x.cls ELSE type
            IN  Dict([n \in FieldNames(cls) |-> Dump(x.f[n], FieldType(cls, n))])

\* The state after one constructor call, whichever it was.
InitWire ==
    /\ now = 0
    /\ pydantic \in {1, 2}
    /\ \E cls \in Classes :
          \E kw \in Args(cls) :
             \E d \in DrawsFor(cls, kw) : last = Call(cls, kw, d, 0)
    /\ minted = <<>>
    /\ wire = None
    /\ back = None
    /\ NoChats

Serialize ==
    /\ last.ok
    /\ wire' = [t |-> "json", cls |-> last.cls, data |-> Dump(last.obj, last.cls),
                of |-> last.obj]
    /\ UNCHANGED <<now, pydantic, last, minted, back, heap>>

\* The class validates the dict: fields absent from it take their defaults.
Deserialize ==
    /\ wire # None
    /\ \E d \in Entropy :
          LET r == Construct(wire.cls, wire.data.v, [now |-> now, draw |-> d])
          IN  back' = [t |-> "parsed", ok |-> r.ok, obj |-> r.obj, of |-> wire.of]
    /\ UNCHANGED <<now, pydantic, last, minted, wire, heap>>

NextWire ==
    \/ Tick
    \/ Serialize
    \/ Deserialize

SpecWire == InitWire /\ [][NextWire]_vars

\* --------------------------------------------------- chats on the heap
\* A Chat holds its messages in a list object and its code in a Code object.
\* The list objects are named: "class" is the default the class statement
\* made, and a chat's own list carries the chat's name.  A Code object only
\* one chat can reach is kept in the chat (own); one a caller also holds is
\* in codes, and the chat holds its name (ref).
Owned(obj) == [ref |-> "", own |-> obj]
Held(r) == [ref |-> r, own |-> None]

CodeOf(c, chs, cds) ==
    IF chs[c].code.ref = "" THEN chs[c].code.own ELSE cds[chs[c].code.ref]

\* What a reader of chat c observes of its messages and code.
View(c, chs, ls, cds) ==
    [messages |-> ls[chs[c].messages], code |-> CodeOf(c, chs, cds)]

\* A list object of chat c's own, holding q.
OwnList(c, q) == [ref |-> c, val |-> q]

\* Every instance is handed the one list of the class statement.
SharedDefaultList(c, ls) == [ref |-> "class", val |-> ls["class"]]

\* messages omitted: the default written in the class is copied for the
\* instance.
DefaultList(c, ls) == OwnList(c, ls["class"])

\* A model instance passed for the code field: library 1 stores a copy of
\* it, library 2 the instance itself.
StoreInstance(r, obj) == IF pydantic = 1 THEN Owned(obj) ELSE Held(r)

InitChat ==
    /\ now = 0
    /\ pydantic \in {1, 2}
    /\ last = NoCall
    /\ minted = <<>>
    /\ wire = None
    /\ back = None
    /\ NoChats

\* A caller constructs a Code and keeps it.
MakeCode(snips) ==
    \E r \in CodeIds, kw \in snips :
        /\ codes[r] = None
        /\ codes' = [codes EXCEPT ![r] = Construct("Code", kw, [now |-> now]).obj]
        /\ op' = [name |-> "MakeCode", chat |-> "", arg |-> Dict(kw)]
        /\ UNCHANGED <<now, pydantic, last, minted, wire, back,
                       chats, lists, born, appended>>

\* Chat(**kw), with the Code object named r passed as code when r is a name.
OpenChat(args) ==
    \E c \in ChatIds, kw0 \in args, r \in CodeIds \cup {""} :
        LET kw == IF r = "" THEN kw0
                  ELSE [n \in DOMAIN kw0 \cup {"code"} |->
                           IF n = "code" THEN codes[r] ELSE kw0[n]]
            res == Construct("Chat", kw, [now |-> now])
            cell == IF "messages" \in DOMAIN kw
                    THEN OwnList(c, res.obj.f["messages"].v)
                    ELSE DefaultList(c, lists)
            code == IF r = "" THEN Owned(res.obj.f["code"])
                    ELSE StoreInstance(r, res.obj.f["code"])
        IN  /\ chats[c] = None
            /\ r # "" => codes[r] # None
            /\ IF res.ok
               THEN /\ chats' = [chats EXCEPT ![c] =
                                   [t |-> "Chat",
                                    userId |-> res.obj.f["userId"],
                                    name |-> res.obj.f["name"],
                                    createdAt |-> res.obj.f["createdAt"],
                                    messages |-> cell.ref,
                                    code |-> code]]
                    /\ lists' = [lists EXCEPT ![cell.ref] = cell.val]
                    /\ born' = [born EXCEPT ![c] = [kw |-> kw, at |-> now, ref |-> r]]
                    /\ op' = [name |-> "OpenChat", chat |-> c, arg |-> Dict(kw)]
               ELSE /\ op' = [name |-> "OpenChat", chat |-> "", arg |-> Dict(kw)]
                    /\ UNCHANGED <<chats, lists, born>>
            /\ UNCHANGED <<now, pydantic, last, minted, wire, back, codes, appended>>

\* chat.messages.append(m)
AppendMessage(msgs) ==
    \E c \in ChatIds, m \in msgs :
        /\ chats[c] # None
        /\ Len(lists[chats[c].messages]) < MaxLen
        /\ lists' = [lists EXCEPT ![chats[c].messages] = Append(@, m)]
        /\ appended' = [appended EXCEPT ![c] = Append(@, m)]
        /\ op' = [name |-> "AppendMessage", chat |-> c, arg |-> m]
        /\ UNCHANGED <<now, pydantic, last, minted, wire, back, chats, codes, born>>

\* The chat takes a snapshot of the snippet as its code.
ReplaceCode(snips) ==
    \E c \in ChatIds, kw \in snips :
        /\ chats[c] # None
        /\ chats' = [chats EXCEPT
                       ![c].code = Owned(Construct("Code", kw, [now |-> now]).obj)]
        /\ op' = [name |-> "ReplaceCode", chat |-> c,
                  arg |-> [kw |-> kw, before |-> CodeOf(c, chats, codes)]]
        /\ UNCHANGED <<now, pydantic, last, minted, wire, back,
                       lists, codes, born, appended>>

\* chat.code.<n> = v: the fields of a Code are assignable.
PatchCode(names) ==
    \E c \in ChatIds, n \in names :
        /\ chats[c] # None
        /\ CodeOf(c, chats, codes).f[n] # Str(Patched)
        /\ IF chats[c].code.ref = ""
           THEN /\ chats' = [chats EXCEPT ![c].code.own.f[n] = Str(Patched)]
                /\ UNCHANGED codes
           ELSE /\ codes' = [codes EXCEPT ![chats[c].code.ref].f[n] = Str(Patched)]
                /\ UNCHANGED chats
        /\ op' = [name |-> "PatchCode", chat |-> c, arg |-> Str(<<n>>)]
        /\ UNCHANGED <<now, pydantic, last, minted, wire, back, lists, born, appended>>

\* Appends, to chats made with and without messages.
NextAppend ==
    \/ OpenChat({Kw([userId |-> Str(U1)]),
                 Kw([userId |-> None]),
                 Kw([userId |-> Str(U1), messages |-> List(<<AMessage>>)])})
    \/ AppendMessage({AMessage, SecondMessage})

SpecAppend == InitChat /\ [][NextAppend]_vars

\* Code objects passed to two constructors, replaced and changed in place.
NextShare ==
    \/ MakeCode({Kw([html |-> Str(Markup)])})
    \/ OpenChat({Kw([userId |-> Str(U1)])})
    \/ AppendMessage({AMessage})
    \/ ReplaceCode({Kw([js |-> Str(ASnippet)])})
    \/ PatchCode({"html"})

SpecShare == InitChat /\ [][NextShare]_vars

\* Both mutations, while the clock runs.
NextFrame ==
    \/ Tick
    \/ OpenChat({Kw([userId |-> Str(U1)]),
                 Kw([userId |-> Str(U1), name |-> Str(Title),
                     createdAt |-> Datetime(Now(1))])})
    \/ AppendMessage({AMessage})
    \/ ReplaceCode({Kw([html |-> Str(Markup)]), Kw([js |-> Str(ASnippet)])})

SpecFrame == InitChat /\ [][NextFrame]_vars

\* ============================================================== claims
HexChars == {"0", "1", "2", "3", "4", "5", "6", "7",
             "8", "9", "a", "b", "c", "d", "e", "f"}
EmptyCode == Obj("Code", [html |-> Str(<<>>), css |-> Str(<<>>), js |-> Str(<<>>)])
Missing(n) == [loc |-> n, type |-> "missing"]
Omits(cls, n) == last.cls = cls /\ n \notin DOMAIN last.kw

\* C1: a Chat constructed without userId, or a Prompt without input, fails
\* with an error that names the missing field and yields no object; every
\* Chat that exists has a str userId and every Prompt a str input.
C1_RequiredFieldEnforced ==
    /\ Omits("Chat", "userId") =>
          /\ ~last.ok
          /\ Missing("userId") \in last.errors
          /\ last.obj = None
    /\ Omits("Prompt", "input") =>
          /\ ~last.ok
          /\ Missing("input") \in last.errors
          /\ last.obj = None
    /\ (last.ok /\ last.cls = "Chat") => last.obj.f["userId"].t = "str"
    /\ (last.ok /\ last.cls = "Prompt") => last.obj.f["input"].t = "str"

\* A Chat call that passed a name and a code but no userId has failed.
C1_Witness ==
    /\ Omits("Chat", "userId")
    /\ {"name", "code"} \subseteq DOMAIN last.kw
    /\ ~last.ok
    /\ last.obj = None

\* The declared default of each optional field other than Message.id, for a
\* construction at instant t.
C2_Declared(cls, n, t) ==
    CASE cls = "Message" /\ n = "type" -> Member("USER")
      [] cls = "Message" /\ n = "content" -> Str(<<>>)
      [] cls \in {"Code", "Response"} /\ n \in {"html", "css", "js"} -> Str(<<>>)
      [] cls = "Response" /\ n = "explanation" -> Str(<<>>)
      [] cls = "Chat" /\ n = "messages" -> List(<<>>)
      [] cls = "Chat" /\ n = "name" -> Str(<<"N", "e", "w", " ", "C", "h", "a", "t">>)
      [] cls = "Chat" /\ n = "code" -> EmptyCode
      [] cls = "Chat" /\ n = "createdAt" ->
            Datetime([s |-> t \div 2, us |-> (t % 2) * 500000])

\* C2: every optional field omitted at construction takes its declared
\* default (createdAt the construction instant), and every passed field its
\* passed value: Chat(userId) alone, Response(explanation) alone, Message().
C2_DefaultsTaken ==
    /\ last.ok =>
          \A n \in DOMAIN last.obj.f \ (DOMAIN last.kw \cup {"id"}) :
              last.obj.f[n] = C2_Declared(last.cls, n, last.at)
    /\ (last.cls = "Chat" /\ DOMAIN last.kw = {"userId"}
            /\ last.kw["userId"].t = "str") =>
          /\ last.ok
          /\ last.obj.f["userId"] = last.kw["userId"]
          /\ DOMAIN last.obj.f = {"userId", "messages", "name", "code", "createdAt"}
    /\ (last.cls = "Response" /\ DOMAIN last.kw = {"explanation"}) =>
          /\ last.ok
          /\ last.obj.f["explanation"] = last.kw["explanation"]
          /\ DOMAIN last.obj.f = {"html", "css", "js", "explanation"}
    /\ (last.cls = "Message" /\ DOMAIN last.kw = {}) =>
          /\ last.ok
          /\ DOMAIN last.obj.f = {"id", "type", "content"}

\* Chat(userId="u1") constructed after the clock has moved.
C2_Witness ==
    /\ last.cls = "Chat"
    /\ DOMAIN last.kw = {"userId"}
    /\ last.ok
    /\ last.at > 0
    /\ last.obj.f["name"] = Str(NewChatName)

\* C5 as stated: after any successful Chat construction messages is empty.
C5_AlwaysStartsEmpty ==
    (last.cls = "Chat" /\ last.ok) => last.obj.f["messages"] = List(<<>>)

\* C5 amended: after a successful Chat construction messages is empty when
\* the caller passed none, and is the passed messages, in order, otherwise.
C5_StartsEmptyUnlessPassed ==
    (last.cls = "Chat" /\ last.ok) =>
        last.obj.f["messages"] =
            IF "messages" \in DOMAIN last.kw THEN last.kw["messages"] ELSE List(<<>>)

\* A Chat made with every argument but messages, and it starts empty.
C5_Witness ==
    /\ last.cls = "Chat"
    /\ last.ok
    /\ DOMAIN last.kw = {"userId", "name", "code", "createdAt"}
    /\ last.obj.f["messages"].v = <<>>

\* C8: a Message whose type is "ai" is AI, "user" is USER, a member is that
\* member; any other value fails with no Message; every Message that
\* exists, also inside a Chat, has type AI or USER.
C8_ClosedMessageType ==
    /\ (last.cls = "Message" /\ "type" \in DOMAIN last.kw
            /\ ("content" \in DOMAIN last.kw => last.kw["content"].t = "str")) =>
          LET x == last.kw["type"]
          IN  CASE x = Str(<<"a", "i">>) ->
                      last.ok /\ last.obj.f["type"] = Member("AI")
                [] x = Str(<<"u", "s", "e", "r">>) ->
                      last.ok /\ last.obj.f["type"] = Member("USER")
                [] x \in {Member("AI"), Member("USER")} ->
                      last.ok /\ last.obj.f["type"] = x
                [] OTHER ->
                      /\ ~last.ok
                      /\ last.obj = None
                      /\ [loc |-> "type", type |-> "enum"] \in last.errors
    /\ (last.cls = "Message" /\ last.ok) =>
          last.obj.f["type"] \in {Member("AI"), Member("USER")}
    /\ (last.cls = "Chat" /\ last.ok) =>
          \A i \in 1..Len(last.obj.f["messages"].v) :
              last.obj.f["messages"].v[i].f["type"] \in {Member("AI"), Member("USER")}

\* Message(type="bot") has failed.
C8_Witness ==
    /\ last.cls = "Message"
    /\ "type" \in DOMAIN last.kw
    /\ last.kw["type"] = Str(<<"b", "o", "t">>)
    /\ ~last.ok

\* Two draws that agree on the 122 bits uuid4 keeps.
C7_SameRandomBits(a, b) ==
    \A k \in (1..32) \ {13} :
        IF k = 17 THEN a[k] % 4 = b[k] % 4 ELSE a[k] = b[k]

\* C7 as stated: the generated ids are pairwise distinct.
C7_PairwiseDistinct ==
    \A i, j \in DOMAIN minted : i # j => minted[i].id # minted[j].id

\* C7 amended: every Message constructed without an id receives 32
\* hexadecimal characters made from that construction's own random draw
\* (version digit 4, variant digit 8..b), and two generated ids are equal
\* exactly when their draws agree on the 122 random bits: nothing checks
\* uniqueness.
C7_FreshHexIdPerConstruction ==
    /\ \A i \in DOMAIN minted :
          LET id == minted[i].id
              d == minted[i].draw
          IN  /\ Len(id) = 32
              /\ \A k \in 1..32 : id[k] \in HexChars
              /\ id[13] = "4"
              /\ id[17] \in {"8", "9", "a", "b"}
              /\ \A k \in (1..32) \ {13, 17} : id[k] = HexDigits[d[k] + 1]
    /\ \A i, j \in DOMAIN minted :
          (minted[i].id = minted[j].id) <=> C7_SameRandomBits(minted[i].draw, minted[j].draw)
    /\ (last.cls = "Message" /\ last.ok /\ "id" \notin DOMAIN last.kw) =>
          /\ minted # <<>>
          /\ last.obj.f["id"] = Str(minted[Len(minted)].id)

\* Two constructions without an id whose ids differ.
C7_Witness ==
    /\ Len(minted) = 2
    /\ minted[1].id # minted[2].id
    /\ last.ok
    /\ "id" \notin DOMAIN last.kw

C9_Exact(e) == ~(e.cls = "Chat" /\ e.f["code"].cls # "Code")

\* The entity e with a Response held as code cut down to a Code.
C9_CodeCut(e) ==
    [e EXCEPT !.f = [n \in DOMAIN e.f |->
        IF n = "code"
        THEN Obj("Code", [m \in {"html", "css", "js"} |-> e.f["code"].f[m]])
        ELSE e.f[n]]]

\* C9 as stated: deserialising the serialised entity yields an entity equal
\* to the original in every field.
C9_RoundTripEqual ==
    back # None => (back.ok /\ back.obj = back.of)

\* C9 amended: the round trip yields an equal entity (id and createdAt kept,
\* the type written "ai" or "user"), except that a Chat whose code holds a
\* Response comes back with a plain Code of the same html, css and js.
C9_RoundTripUpToCode ==
    /\ back # None =>
          /\ back.ok
          /\ IF C9_Exact(back.of) THEN back.obj = back.of
             ELSE back.obj = C9_CodeCut(back.of) /\ back.obj # back.of
    /\ (wire # None /\ wire.cls = "Message") =>
          /\ wire.data.v["type"] \in {Str(<<"a", "i">>), Str(<<"u", "s", "e", "r">>)}
          /\ (wire.data.v["type"] = Str(<<"a", "i">>)) <=> (wire.of.f["type"] = Member("AI"))
          /\ wire.data.v["id"] = wire.of.f["id"]

\* A Chat with a default createdAt that came back equal, later than it was made.
C9_Witness ==
    /\ back # None
    /\ back.of.cls = "Chat"
    /\ "createdAt" \notin DOMAIN last.kw
    /\ now > last.at
    /\ back.obj = back.of
    /\ back.obj.f["messages"].v # <<>>

\* The messages chat c was constructed with.
C3_Started(c) ==
    IF "messages" \in DOMAIN born[c].kw THEN born[c].kw["messages"].v ELSE <<>>

\* C3: a Chat's messages are those it started with followed by exactly the
\* messages appended to it, in the order appended, duplicates kept; so a
\* Chat that started empty holds exactly the appended sequence.
C3_AppendsInOrder ==
    \A c \in ChatIds :
        chats[c] # None =>
            /\ lists[chats[c].messages] = C3_Started(c) \o appended[c]
            /\ C3_Started(c) = <<>> => lists[chats[c].messages] = appended[c]
            /\ (op.name = "AppendMessage" /\ op.chat = c) =>
                  lists[chats[c].messages][Len(lists[chats[c].messages])] = op.arg

\* Two chats that started empty: one took the same message twice, the other
\* a different one.
C3_Witness ==
    /\ chats["a"] # None /\ chats["b"] # None
    /\ "messages" \notin DOMAIN born["a"].kw
    /\ "messages" \notin DOMAIN born["b"].kw
    /\ appended["a"] = <<AMessage, AMessage>>
    /\ appended["b"] = <<SecondMessage>>
    /\ lists[chats["a"].messages] = <<AMessage, AMessage>>

\* Chats d and c were constructed from the same Code object and both still
\* hold it.
C4_SameInstance(d, c) ==
    /\ born[d].ref # ""
    /\ born[d].ref = born[c].ref
    /\ chats[d].code = Held(born[d].ref)
    /\ chats[c].code = Held(born[c].ref)

\* C4 as stated: an operation on one chat never changes the messages or the
\* code observed on another.
C4_NeverObservedOnOther ==
    [][\A d \in ChatIds :
          (chats[d] # None /\ op'.chat # d) =>
              View(d, chats', lists', codes') = View(d, chats, lists, codes)]_vars

\* C4 amended: appending to one chat or replacing its code never changes
\* what another chat shows, and chats made with messages and code omitted
\* share nothing; the one exception is a Code object passed to both
\* constructors under library 2, which keeps the object: changing it in
\* place through one chat shows on the other.
C4_OwnedUnlessSameInstance ==
    [][\A d \in ChatIds :
          (chats[d] # None /\ op'.chat # d) =>
              /\ lists'[chats'[d].messages] = lists[chats[d].messages]
              /\ \/ CodeOf(d, chats', codes') = CodeOf(d, chats, codes)
                 \/ /\ op'.name = "PatchCode"
                    /\ pydantic = 2
                    /\ C4_SameInstance(d, op'.chat)]_vars

\* Two chats made with messages and code omitted; one was appended to and
\* had its code changed in place, the other shows neither.
C4_Witness ==
    /\ chats["a"] # None /\ chats["b"] # None
    /\ born["a"].ref = "" /\ born["b"].ref = ""
    /\ op.name = "PatchCode" /\ op.chat = "a"
    /\ lists[chats["a"].messages] # <<>>
    /\ View("b", chats, lists, codes) = [messages |-> <<>>, code |-> EmptyCode]

\* C6: after ReplaceCode the chat's code is the snippet in html, css and js:
\* each field the snippet's caller passed, the empty string where it passed
\* none, whatever the code held before.
C6_ReplacedWholesale ==
    op.name = "ReplaceCode" =>
        LET code == CodeOf(op.chat, chats, codes)
        IN  /\ code.cls = "Code"
            /\ DOMAIN code.f = {"html", "css", "js"}
            /\ \A n \in {"html", "css", "js"} :
                  code.f[n] = IF n \in DOMAIN op.arg.kw THEN op.arg.kw[n] ELSE Str(<<>>)

\* A code with html text was replaced by a snippet with none.
C6_Witness ==
    /\ op.name = "ReplaceCode"
    /\ op.arg.before.f["html"] = Str(Markup)
    /\ "html" \notin DOMAIN op.arg.kw
    /\ CodeOf(op.chat, chats, codes).f["html"] = Str(<<>>)
    /\ CodeOf(op.chat, chats, codes).f["js"] = Str(ASnippet)

\* The userId, name and createdAt fixed when chat c was constructed.
C10_Fixed(c, chs, brn) ==
    LET kw == brn[c].kw
    IN  /\ chs[c].userId = kw["userId"]
        /\ chs[c].name = IF "name" \in DOMAIN kw THEN kw["name"]
                         ELSE Str(<<"N", "e", "w", " ", "C", "h", "a", "t">>)
        /\ chs[c].createdAt =
              IF "createdAt" \in DOMAIN kw THEN kw["createdAt"]
              ELSE Datetime([s |-> brn[c].at \div 2, us |-> (brn[c].at % 2) * 500000])

\* C10: AppendMessage leaves userId, name, code and createdAt unchanged and
\* ReplaceCode leaves userId, name, messages and createdAt unchanged, so a
\* chat's userId, name and createdAt stay the values fixed at construction.
C10_MutationsTouchOwnField ==
    [][\A c \in ChatIds :
          chats[c] # None =>
              /\ chats'[c].userId = chats[c].userId
              /\ chats'[c].name = chats[c].name
              /\ chats'[c].createdAt = chats[c].createdAt
              /\ op'.name = "AppendMessage" =>
                    CodeOf(c, chats', codes') = CodeOf(c, chats, codes)
              /\ op'.name = "ReplaceCode" =>
                    lists'[chats'[c].messages] = lists[chats[c].messages]
              /\ C10_Fixed(c, chats', born')]_vars

\* A chat made at instant 0 with a default createdAt, appended to and its
\* code replaced later, still carries instant 0.
C10_Witness ==
    /\ chats["a"] # None
    /\ "createdAt" \notin DOMAIN born["a"].kw
    /\ born["a"].at = 0
    /\ now > 0
    /\ appended["a"] # <<>>
    /\ op.name = "ReplaceCode" /\ op.chat = "a"
    /\ chats["a"].createdAt = Datetime([s |-> 0, us |-> 0])

====
